---- MODULE Spec2Model ----
(***************************************************************************)
(* SaborIA: the supervisor's routing / fan-out / consolidation protocol    *)
(* (agents/supervisor.py), the retry wrappers it is decorated with         *)
(* (agents/retry.py) and the streaming endpoint (api/main.py).             *)
(*                                                                         *)
(* One request is followed from its reception to DONE or FAILED, in one of *)
(* the three entry points: SupervisorAgent.run (blocking), .arun           *)
(* (asyncio.gather) and query_stream_endpoint._event_generator (SSE).      *)
(***************************************************************************)
EXTENDS Integers, Sequences, FiniteSets, TLC

\* ------------------------------------------------------------------ bounds
\* Longest JSON array the classifier is made to emit.
MaxArr == 2
\* Largest max_retries a retry decorator is given.
MaxRetriesBound == 3
\* Most ingest_file calls made on the collection.
MaxIngests == 2
\* Longest capability list of a request served concurrently with another.
MaxPairSelected == 2

\* ------------------------------------------------------- program constants
\* @retry_with_backoff(max_retries=2) on _route / _aroute
RouteMaxRetries == 2
\* @retry_with_backoff(max_retries=3) on every specialist's run / arun
AgentMaxRetries == 3

\* keys of SupervisorAgent.agents
AgentNames == {"nutrition", "recommendation", "quality"}

Modes == {"run", "arun", "stream"}

\* ------------------------------------------------ failures and _is_retryable
\* A failure is identified by its description str(exc), a sequence of words.
RateLimitError == <<"Rate", "limit", "exceeded">>
BadInputError == <<"bad", "input">>
Exceptions == {RateLimitError, BadInputError}

\* str.lower() on the words used here
Lower(w) == CASE w = "Rate" -> "rate"
              [] w = "Timeout" -> "timeout"
              [] w = "Server" -> "server"
              [] OTHER -> w

LowerMsg(msg) == [i \in 1..Len(msg) |-> Lower(msg[i])]

_RETRYABLE_SUBSTRINGS ==
    {<<"rate", "limit">>, <<"timeout">>, <<"server", "error">>,
     <<"502">>, <<"503">>, <<"529">>}

\* s in msg: s occurs as a contiguous run of msg
Contains(msg, s) ==
    \E k \in 0..(Len(msg) - Len(s)) : \A j \in 1..Len(s) : msg[k + j] = s[j]

_is_retryable(exc) ==
    LET msg == LowerMsg(exc)
    IN  \E s \in _RETRYABLE_SUBSTRINGS : Contains(msg, s)

\* the wrapper forgets the attempt budget: a transient failure is always retried
RetryGivesUp_never_exhausted(attempt, max_retries, exc) ==
    ~_is_retryable(exc)

\* the wrapper gives up one failure too early
RetryGivesUp_one_early(attempt, max_retries, exc) ==
    attempt + 1 >= max_retries \/ ~_is_retryable(exc)

\* every failure is retried, transient or not, until the budget is spent
RetryGivesUp_transience_ignored(attempt, max_retries, exc) ==
    attempt = max_retries

\* the wrapper allows one retry more than max_retries
RetryGivesUp_one_more(attempt, max_retries, exc) ==
    attempt = max_retries + 1 \/ ~_is_retryable(exc)

\* retry.py line 52: the wrapper re-raises instead of sleeping and retrying
RetryGivesUp(attempt, max_retries, exc) ==
    attempt = max_retries \/ ~_is_retryable(exc)

\* ------------------------------------------------------ classifier output
\* The classifier's reply is a text: a sequence of tokens, each a code-fence
\* marker, the residue "json" of a half-removed marker, or one JSON document.
\* A JSON document is kept as the value json.loads gives for it.
NoItems == <<>>
Str(v) == [t |-> "str", v |-> v]
NestedList == [t |-> "list", v |-> "[]"]

\* the values a JSON array of the classifier holds
Elems == {Str(n) : n \in AgentNames} \cup {Str("bogus"), NestedList}

RECURSIVE SeqsUpTo(_, _)
SeqsUpTo(S, n) ==
    IF n = 0 THEN {<<>>}
    ELSE LET shorter == SeqsUpTo(S, n - 1)
         IN  shorter \cup {Append(s, x) : s \in {q \in shorter : Len(q) = n - 1}, x \in S}

Doc(kind, items) == [kind |-> kind, items |-> items]
ArrayDocs == {Doc("array", s) : s \in SeqsUpTo(Elems, MaxArr)}
\* JSON objects, by their keys in order
ObjectDocs == {Doc("object", <<>>), Doc("object", <<Str("nutrition")>>),
               Doc("object", <<Str("bogus"), Str("quality")>>)}
\* JSON strings, by their characters in order
StringDocs == {Doc("string", <<>>),
               Doc("string", <<Str("n"), Str("u"), Str("t"), Str("r"), Str("i"),
                               Str("t"), Str("i"), Str("o"), Str("n")>>)}
ScalarDocs == {Doc("number", NoItems), Doc("null", NoItems)}
Malformed == Doc("malformed", NoItems)
Docs == ArrayDocs \cup ObjectDocs \cup StringDocs \cup ScalarDocs \cup {Malformed}

NoDoc == Doc("none", NoItems)
FenceJson == [t |-> "fence_json", doc |-> NoDoc]
Fence == [t |-> "fence", doc |-> NoDoc]
JsonWord == [t |-> "json", doc |-> NoDoc]
DocTok(d) == [t |-> "doc", doc |-> d]

Prefixes == {<<>>, <<FenceJson>>, <<Fence>>, <<FenceJson, Fence>>, <<FenceJson, FenceJson>>}
Suffixes == {<<>>, <<Fence>>}
\* response.content.strip() of the classifier
Contents == {p \o <<DocTok(d)>> \o s : p \in Prefixes, d \in Docs, s \in Suffixes}
                \cup {<<>>}

\* str.removeprefix: the json fence marker itself starts with the bare marker
removeprefix(text, p) ==
    IF text = <<>> THEN text
    ELSE IF text[1].t = p.t THEN Tail(text)
    ELSE IF p.t = "fence" /\ text[1].t = "fence_json" THEN <<JsonWord>> \o Tail(text)
    ELSE text

removesuffix(text, p) ==
    IF text = <<>> THEN text
    ELSE IF text[Len(text)].t = p.t THEN SubSeq(text, 1, Len(text) - 1)
    ELSE text

\* supervisor.py line 89
StripFence(content) ==
    removesuffix(removeprefix(removeprefix(content, FenceJson), Fence), Fence)

\* json.loads raises unless the text is exactly one well-formed document
JsonLoadsRaises(text) ==
    \/ Len(text) # 1
    \/ text[1].t # "doc"
    \/ text[1].doc.kind = "malformed"

json_loads(text) == text[1].doc

\* for a in agents: a list gives its elements, a dict its keys, a str its
\* characters; an int or None is not iterable (TypeError)
IterRaises(value) == value.kind \in {"number", "null"}

\* a in self.agents: hashing a list raises TypeError
MembershipRaises(a) == a.t \in {"list", "dict"}

\* the filter lets every string through
InAgents_any_string(a) == a.t = "str"

InAgents(a) == a.t = "str" /\ a.v \in AgentNames

Names(items) == [i \in 1..Len(items) |-> items[i].v]

DefaultRoute == <<"recommendation">>

\* supervisor.py lines 90-95: the try / except around loads and the filter
ParseAgents(raw) ==
    IF JsonLoadsRaises(raw) THEN DefaultRoute
    ELSE LET agents == json_loads(raw)
         IN  IF IterRaises(agents) THEN DefaultRoute
             ELSE IF \E i \in 1..Len(agents.items) : MembershipRaises(agents.items[i])
                  THEN DefaultRoute
             ELSE Names(SelectSeq(agents.items, InAgents))

\* ------------------------------------------------------------ request state
VARIABLES
    mode,                \* entry point serving the request
    state,               \* RECEIVED, ROUTING, EXECUTING, CONSOLIDATING, DONE, FAILED
    route_pc,            \* position inside _route / _aroute: llm, parse, return; else idle
    attempt,             \* loop variable of the retry wrapper around _route / _aroute
    raw,                 \* local raw of _route: the classifier's reply, once received
    selected,            \* capability list returned by the router
    task,                \* per position of selected: the specialist invocation
    completed,           \* as_completed: finished tasks not yet consumed, oldest first
    agent_outputs,       \* dict name -> output, as its items in insertion order
    events,              \* SSE events yielded so far
    consolidations,      \* calls of _consolidate / _aconsolidate made
    consolidation_input, \* the items the consolidator joined
    response,            \* consolidated text
    error,               \* failure propagated to the caller
    finish_order,        \* positions of selected, in the order their invocations ended
    cfg,                 \* arguments of the retry decorator under study
    script,              \* what the decorated function did on its successive calls
    wr,                  \* per decorator (sync, async): the frame of its wrapper
    store,               \* the Chroma collection "menus": its chunks, oldest first
    ingests,             \* calls of ingest_file made so far
    retrieved,           \* the last retriever built and the chunks its filter lets through
    req                  \* per concurrent /query request: the frame of its arun call

retry_vars == <<cfg, script, wr>>

ingest_vars == <<store, ingests, retrieved>>

vars == <<mode, state, route_pc, attempt, raw, selected, task, completed, agent_outputs,
          events, consolidations, consolidation_input, response, error,
          finish_order, retry_vars, ingest_vars, req>>

NoRaw == <<[t |-> "unset", doc |-> NoDoc]>>
NoError == <<>>
NoResponse == "unset"
FinalText == "final"

\* ------------------------------------------------------ specialist outputs
\* by: the capability whose specialist produced the text (provenance);
\* marker, name, exc: the parts the supervisor formats into an error string.
NoOut == [by |-> "", marker |-> "", name |-> "", exc |-> NoError]
\* result["result"] of the specialist's chain
AgentText(name) == [by |-> name, marker |-> "", name |-> "", exc |-> NoError]
\* f"[Erro no agente {name}: {exc}]"
ErrorText(name, exc) ==
    [by |-> name, marker |-> "Erro no agente", name |-> name, exc |-> exc]

Pending == [status |-> "pending", attempt |-> 0, out |-> NoOut]
Finished(out) == [status |-> "done", attempt |-> 0, out |-> out]

\* ----------------------------------------------------------------- dict
HasKey(d, k) == \E j \in 1..Len(d) : d[j].k = k

\* d[k] = v: a present key keeps its position
DictSet(d, k, v) ==
    IF HasKey(d, k)
    THEN [j \in 1..Len(d) |-> IF d[j].k = k THEN [k |-> k, v |-> v] ELSE d[j]]
    ELSE Append(d, [k |-> k, v |-> v])

DictGet(d, k) == d[CHOOSE j \in 1..Len(d) : d[j].k = k].v

RECURSIVE DictOf(_)
\* dict(results) over (name, output) pairs
DictOf(pairs) ==
    IF pairs = <<>> THEN <<>>
    ELSE LET n == Len(pairs)
         IN  DictSet(DictOf(SubSeq(pairs, 1, n - 1)), pairs[n][1], pairs[n][2])

\* ----------------------------------------------------------------- events
\* _sse(event, data)
_sse(event, data) == <<event, data>>

Emit(evs) == IF mode = "stream" THEN events \o evs ELSE events

\* ---------------------------------------------------------- retry wrappers
\* retry_with_backoff and async_retry_with_backoff, studied on their own: one
\* decorated function, called by the sync wrapper and by the async wrapper.
\* Times are in quarters of a second.
Kinds == {"sync", "async"}

Seconds(n) == 4 * n

\* the decorator's arguments; base_delay=1.0 and max_delay=30.0 are the defaults
Cfgs == [max_retries : 0..MaxRetriesBound,
         base_delay : {Seconds(1), Seconds(2)},
         max_delay : {Seconds(2), Seconds(30)},
         jitter : BOOLEAN]

NoCfg == [max_retries |-> 0, base_delay |-> 0, max_delay |-> 0, jitter |-> FALSE]

\* what one call of the decorated function does: return, or raise msg
Returns == [ok |-> TRUE, msg |-> NoError]
Raises(msg) == [ok |-> FALSE, msg |-> msg]
Outcomes == {Returns} \cup {Raises(msg) : msg \in Exceptions}

\* random.random(), by the quarters it yields
JitterDraws == {0, 3}

\* an exception object: its description and the call that raised it
NoExc == [msg |-> NoError, call |-> 0]
OkValue == "ok"
NoValue == "unset"

IdleFrame == [pc |-> "idle", attempt |-> 0, calls |-> 0, sleeps |-> <<>>,
              last_exc |-> NoExc, exc |-> NoExc, value |-> NoValue]
CallFrame == [IdleFrame EXCEPT !.pc = "call"]

Min(a, b) == IF a <= b THEN a ELSE b

\* the backoff grows by a constant step instead of doubling
Backoff_linear(base_delay, max_delay, n) ==
    Min(base_delay * (n + 1), max_delay)

\* min(base_delay * (2**attempt), max_delay)
Backoff(base_delay, max_delay, n) ==
    Min(base_delay * (2 ^ n), max_delay)

\* delay *= 0.5 + random.random()
Jittered(delay, draw) == (delay * (2 + draw)) \div 4

\* the draws random.random() may give in this configuration
Draws == IF cfg.jitter THEN JitterDraws ELSE {0}

\* the decorated function: its n-th call does what the script says; the
\* script covers every call a wrapper with this max_retries can make, and a
\* call past its end may do anything
Scripts(max_retries) == [1..(max_retries + 1) -> Outcomes]

FnOutcomes(n) == IF n <= Len(script) THEN {script[n]} ELSE Outcomes

\* the sync wrapper sleeps before it re-raises as well
SyncIteration_sleep_then_raise(f, outcome, draw) ==
    LET n == f.calls + 1
        exc == [msg |-> outcome.msg, call |-> n]
        delay == Backoff(cfg.base_delay, cfg.max_delay, f.attempt)
        slept == IF cfg.jitter THEN Jittered(delay, draw) ELSE delay
    IN  IF outcome.ok
        THEN [f EXCEPT !.pc = "returned", !.calls = n, !.value = OkValue]
        ELSE IF RetryGivesUp(f.attempt, cfg.max_retries, outcome.msg)
        THEN [f EXCEPT !.pc = "raised", !.calls = n, !.last_exc = exc, !.exc = exc,
                       !.sleeps = Append(@, slept)]
        ELSE [f EXCEPT !.calls = n, !.last_exc = exc, !.attempt = @ + 1,
                       !.sleeps = Append(@, slept)]

\* one turn of the loop over range(max_retries + 1) in the sync wrapper
SyncIteration(f, outcome, draw) ==
    LET n == f.calls + 1
        exc == [msg |-> outcome.msg, call |-> n]
        delay == Backoff(cfg.base_delay, cfg.max_delay, f.attempt)
        slept == IF cfg.jitter THEN Jittered(delay, draw) ELSE delay
    IN  IF outcome.ok
        THEN [f EXCEPT !.pc = "returned", !.calls = n, !.value = OkValue]
        ELSE IF RetryGivesUp(f.attempt, cfg.max_retries, outcome.msg)
        THEN [f EXCEPT !.pc = "raised", !.calls = n, !.last_exc = exc, !.exc = exc]
        ELSE [f EXCEPT !.calls = n, !.last_exc = exc, !.attempt = @ + 1,
                       !.sleeps = Append(@, slept)]

\* the async wrapper ignores max_delay
AsyncIteration_uncapped(f, outcome, draw) ==
    LET n == f.calls + 1
        exc == [msg |-> outcome.msg, call |-> n]
        delay == cfg.base_delay * (2 ^ f.attempt)
        slept == IF cfg.jitter THEN Jittered(delay, draw) ELSE delay
    IN  IF outcome.ok
        THEN [f EXCEPT !.pc = "returned", !.calls = n, !.value = OkValue]
        ELSE IF RetryGivesUp(f.attempt, cfg.max_retries, outcome.msg)
        THEN [f EXCEPT !.pc = "raised", !.calls = n, !.last_exc = exc, !.exc = exc]
        ELSE [f EXCEPT !.calls = n, !.last_exc = exc, !.attempt = @ + 1,
                       !.sleeps = Append(@, slept)]

\* one turn of the same loop in the async wrapper
AsyncIteration(f, outcome, draw) ==
    LET n == f.calls + 1
        exc == [msg |-> outcome.msg, call |-> n]
        delay == Backoff(cfg.base_delay, cfg.max_delay, f.attempt)
        slept == IF cfg.jitter THEN Jittered(delay, draw) ELSE delay
    IN  IF outcome.ok
        THEN [f EXCEPT !.pc = "returned", !.calls = n, !.value = OkValue]
        ELSE IF RetryGivesUp(f.attempt, cfg.max_retries, outcome.msg)
        THEN [f EXCEPT !.pc = "raised", !.calls = n, !.last_exc = exc, !.exc = exc]
        ELSE [f EXCEPT !.calls = n, !.last_exc = exc, !.attempt = @ + 1,
                       !.sleeps = Append(@, slept)]

\* ---------------------------------------------------------------- ingestion
\* menu names given to ingest_file and get_retriever
MenuNames == {"", "Bella Terra", "Cantina"}

\* get_retriever(menu_name=None)
NoMenu == "None"

\* the text chunks the splitter yields
ChunkTexts == {"Feijoada", "Moqueca"}

\* hashlib.md5(menu_name.encode()).hexdigest()[:8], on MenuNames
menu_id_of(menu_name) ==
    CASE menu_name = "" -> "d41d8cd9"
      [] menu_name = "Bella Terra" -> "9e7d4efa"
      [] menu_name = "Cantina" -> "41314fb0"

\* hashlib.md5(chunk.page_content.encode()).hexdigest(), on ChunkTexts
content_hash_of(text) ==
    CASE text = "Feijoada" -> "c9fc5369505849d54ab8e5413119b698"
      [] text = "Moqueca" -> "8f158bac2b1300443ee96b251edf9fa2"

NoFilter == "no filter"
NoRetrieval == [scope |-> NoMenu, filter |-> NoFilter, docs |-> {}, built |-> FALSE]

\* -------------------------------------------------------------------- Init
Init ==
    /\ mode \in Modes
    /\ state = "RECEIVED"
    /\ route_pc = "idle"
    /\ attempt = 0
    /\ raw = NoRaw
    /\ selected = <<>>
    /\ task = <<>>
    /\ completed = <<>>
    /\ agent_outputs = <<>>
    /\ events = <<>>
    /\ consolidations = 0
    /\ consolidation_input = <<>>
    /\ response = NoResponse
    /\ error = NoError
    /\ finish_order = <<>>
    /\ cfg = NoCfg
    /\ script = <<>>
    /\ wr = [k \in Kinds |-> IdleFrame]
    /\ store = <<>>
    /\ ingests = 0
    /\ retrieved = NoRetrieval
    /\ req = <<>>

\* ------------------------------------------------------------------ router
\* run / arun / _event_generator call the router
Receive ==
    /\ state = "RECEIVED"
    /\ state' = "ROUTING"
    /\ route_pc' = "llm"
    /\ UNCHANGED <<req, ingest_vars, retry_vars, finish_order, mode, attempt, raw, selected, task, completed, agent_outputs,
                   events, consolidations, consolidation_input, response, error>>

\* self.llm.invoke / ainvoke of the router returns the classifier's reply;
\* strip, then the fence markers are removed
RouteReply ==
    /\ route_pc = "llm"
    /\ \E content \in Contents : raw' = StripFence(content)
    /\ route_pc' = "parse"
    /\ UNCHANGED <<req, ingest_vars, retry_vars, finish_order, mode, state, attempt, selected, task, completed, agent_outputs,
                   events, consolidations, consolidation_input, response, error>>

\* try: json.loads and the filter / except: the default
RouteParse ==
    /\ route_pc = "parse"
    /\ selected' = ParseAgents(raw)
    /\ route_pc' = "return"
    /\ UNCHANGED <<req, ingest_vars, retry_vars, finish_order, mode, state, attempt, raw, task, completed, agent_outputs,
                   events, consolidations, consolidation_input, response, error>>

\* _route returns through its retry wrapper; the caller starts the fan-out
\* (the streaming generator first yields the routing event)
RouteReturn ==
    /\ route_pc = "return"
    /\ route_pc' = "idle"
    /\ raw' = NoRaw
    /\ attempt' = 0
    /\ task' = [i \in 1..Len(selected) |-> Pending]
    /\ events' = Emit(<<_sse("routing", selected)>>)
    /\ state' = "EXECUTING"
    /\ UNCHANGED <<req, ingest_vars, retry_vars, finish_order, mode, selected, completed, agent_outputs, consolidations,
                   consolidation_input, response, error>>

\* the generator yields an empty routing event before the error event
RouteRaise_routing_first(exc) ==
    /\ route_pc = "llm"
    /\ IF RetryGivesUp(attempt, RouteMaxRetries, exc)
       THEN /\ state' = "FAILED"
            /\ route_pc' = "idle"
            /\ error' = exc
            /\ attempt' = 0
            /\ events' = Emit(<<_sse("routing", <<>>), _sse("error", exc)>>)
       ELSE /\ attempt' = attempt + 1
            /\ UNCHANGED <<state, route_pc, error, events>>
    /\ UNCHANGED <<req, ingest_vars, retry_vars, finish_order, mode, raw, selected, task,
                   completed, agent_outputs, consolidations, consolidation_input,
                   response>>

\* the router decorated with the specialists' max_retries
RouteRaise_agent_budget(exc) ==
    /\ route_pc = "llm"
    /\ IF RetryGivesUp(attempt, AgentMaxRetries, exc)
       THEN /\ state' = "FAILED"
            /\ route_pc' = "idle"
            /\ error' = exc
            /\ attempt' = 0
            /\ events' = Emit(<<_sse("error", exc)>>)
       ELSE /\ attempt' = attempt + 1
            /\ UNCHANGED <<state, route_pc, error, events>>
    /\ UNCHANGED <<req, ingest_vars, retry_vars, finish_order, mode, raw, selected, task, completed,
                   agent_outputs, consolidations, consolidation_input, response>>

\* the router's generation call raises: the retry wrapper sleeps and calls
\* again, or re-raises to the caller
RouteRaise(exc) ==
    /\ route_pc = "llm"
    /\ IF RetryGivesUp(attempt, RouteMaxRetries, exc)
       THEN /\ state' = "FAILED"
            /\ route_pc' = "idle"
            /\ error' = exc
            /\ attempt' = 0
            /\ events' = Emit(<<_sse("error", exc)>>)
       ELSE /\ attempt' = attempt + 1
            /\ UNCHANGED <<state, route_pc, error, events>>
    /\ UNCHANGED <<req, ingest_vars, retry_vars, finish_order, mode, raw, selected, task, completed, agent_outputs,
                   consolidations, consolidation_input, response>>

\* ------------------------------------------------------------- specialists
Slots == 1..Len(task)

\* the barrier opens as soon as one task is done
AllDone_any == Slots = {} \/ \E i \in Slots : task[i].status = "done"

AllDone == \A i \in Slots : task[i].status = "done"

\* run invokes the specialists one after the other, in list order;
\* gather and ensure_future start them all
CanRun(i) ==
    /\ state = "EXECUTING"
    /\ task[i].status = "pending"
    /\ mode = "run" => \A j \in 1..(i - 1) : task[j].status = "done"

\* the specialist's wrapper allows one retry more
SpecialistRetry_one_more(i, exc) ==
    /\ CanRun(i)
    /\ task[i].attempt <= AgentMaxRetries
    /\ _is_retryable(exc)
    /\ task' = [task EXCEPT ![i].attempt = @ + 1]
    /\ UNCHANGED <<req, ingest_vars, retry_vars, finish_order, mode, state, route_pc, attempt, raw, selected,
                   completed, agent_outputs, events, consolidations,
                   consolidation_input, response, error>>

\* the specialist's own retry wrapper (max_retries=3) sleeps and calls the
\* retrieve-and-generate chain again
SpecialistRetry(i, exc) ==
    /\ CanRun(i)
    /\ ~RetryGivesUp(task[i].attempt, AgentMaxRetries, exc)
    /\ task' = [task EXCEPT ![i].attempt = @ + 1]
    /\ UNCHANGED <<req, ingest_vars, retry_vars, finish_order, mode, state, route_pc, attempt, raw, selected, completed, agent_outputs,
                   events, consolidations, consolidation_input, response, error>>

\* run, loop body: agent_outputs[name] = self.agents[name].run(...)
RunAgentReturn(i) ==
    /\ mode = "run"
    /\ CanRun(i)
    /\ task' = [task EXCEPT ![i] = Finished(AgentText(selected[i]))]
    /\ agent_outputs' = DictSet(agent_outputs, selected[i], AgentText(selected[i]))
    /\ finish_order' = Append(finish_order, i)
    /\ UNCHANGED <<req, ingest_vars, retry_vars, mode, state, route_pc, attempt, raw, selected, completed, events,
                   consolidations, consolidation_input, response, error>>

\* run, loop body: except Exception as exc
RunAgentRaise(i, exc) ==
    /\ mode = "run"
    /\ CanRun(i)
    /\ RetryGivesUp(task[i].attempt, AgentMaxRetries, exc)
    /\ task' = [task EXCEPT ![i] = Finished(ErrorText(selected[i], exc))]
    /\ agent_outputs' = DictSet(agent_outputs, selected[i], ErrorText(selected[i], exc))
    /\ finish_order' = Append(finish_order, i)
    /\ UNCHANGED <<req, ingest_vars, retry_vars, mode, state, route_pc, attempt, raw, selected, completed, events,
                   consolidations, consolidation_input, response, error>>

\* arun._invoke_agent: return name, result
_invoke_agent_return(i) ==
    /\ mode = "arun"
    /\ CanRun(i)
    /\ task' = [task EXCEPT ![i] = Finished(AgentText(selected[i]))]
    /\ finish_order' = Append(finish_order, i)
    /\ UNCHANGED <<req, ingest_vars, retry_vars, mode, state, route_pc, attempt, raw, selected, completed, agent_outputs,
                   events, consolidations, consolidation_input, response, error>>

\* _invoke_agent without its try / except: gather propagates the failure
_invoke_agent_raise_unhandled(i, exc) ==
    /\ mode = "arun"
    /\ state = "EXECUTING"
    /\ task[i].status = "pending"
    /\ task[i].attempt = AgentMaxRetries \/ ~_is_retryable(exc)
    /\ state' = "FAILED"
    /\ error' = exc
    /\ UNCHANGED <<req, ingest_vars, retry_vars, finish_order, mode, route_pc, attempt, raw, selected, task, completed,
                   agent_outputs, events, consolidations, consolidation_input,
                   response>>

\* arun._invoke_agent: except Exception as exc
_invoke_agent_raise(i, exc) ==
    /\ mode = "arun"
    /\ CanRun(i)
    /\ RetryGivesUp(task[i].attempt, AgentMaxRetries, exc)
    /\ task' = [task EXCEPT ![i] = Finished(ErrorText(selected[i], exc))]
    /\ finish_order' = Append(finish_order, i)
    /\ UNCHANGED <<req, ingest_vars, retry_vars, mode, state, route_pc, attempt, raw, selected, completed, agent_outputs,
                   events, consolidations, consolidation_input, response, error>>

\* _event_generator._invoke: return name, result
_invoke_return(i) ==
    /\ mode = "stream"
    /\ CanRun(i)
    /\ task' = [task EXCEPT ![i] = Finished(AgentText(selected[i]))]
    /\ completed' = Append(completed, i)
    /\ finish_order' = Append(finish_order, i)
    /\ UNCHANGED <<req, ingest_vars, retry_vars, mode, state, route_pc, attempt, raw, selected, agent_outputs, events,
                   consolidations, consolidation_input, response, error>>

\* a failed specialist is recorded but never handed to the as_completed loop
_invoke_raise_silent(i, exc) ==
    /\ mode = "stream"
    /\ state = "EXECUTING"
    /\ task[i].status = "pending"
    /\ task[i].attempt = AgentMaxRetries \/ ~_is_retryable(exc)
    /\ task' = [task EXCEPT ![i] = Finished(ErrorText(selected[i], exc))]
    /\ agent_outputs' = DictSet(agent_outputs, selected[i], ErrorText(selected[i], exc))
    /\ finish_order' = Append(finish_order, i)
    /\ UNCHANGED <<req, ingest_vars, retry_vars, mode, state, route_pc, attempt, raw, selected, completed,
                   events, consolidations, consolidation_input, response, error>>

\* _event_generator._invoke: except Exception as exc
_invoke_raise(i, exc) ==
    /\ mode = "stream"
    /\ CanRun(i)
    /\ RetryGivesUp(task[i].attempt, AgentMaxRetries, exc)
    /\ task' = [task EXCEPT ![i] = Finished(ErrorText(selected[i], exc))]
    /\ completed' = Append(completed, i)
    /\ finish_order' = Append(finish_order, i)
    /\ UNCHANGED <<req, ingest_vars, retry_vars, mode, state, route_pc, attempt, raw, selected, agent_outputs, events,
                   consolidations, consolidation_input, response, error>>

\* the loop takes the finished tasks in capability-list order
StreamAgentEvent_list_order ==
    /\ mode = "stream"
    /\ state = "EXECUTING"
    /\ completed # <<>>
    /\ LET done == {completed[j] : j \in 1..Len(completed)}
           i == CHOOSE x \in done : \A y \in done : x <= y
           name == selected[i]
           output == task[i].out
       IN  /\ agent_outputs' = DictSet(agent_outputs, name, output)
           /\ events' = Emit(<<_sse("agent", <<name, output>>)>>)
           /\ completed' = SelectSeq(completed, LAMBDA x : x # i)
    /\ UNCHANGED <<req, ingest_vars, retry_vars, finish_order, mode, state, route_pc, attempt, raw, selected,
                   task, consolidations, consolidation_input, response, error>>

\* _event_generator: one turn of the loop over asyncio.as_completed(tasks)
StreamAgentEvent ==
    /\ mode = "stream"
    /\ state = "EXECUTING"
    /\ completed # <<>>
    /\ LET i == Head(completed)
           name == selected[i]
           output == task[i].out
       IN  /\ agent_outputs' = DictSet(agent_outputs, name, output)
           /\ events' = Emit(<<_sse("agent", <<name, output>>)>>)
    /\ completed' = Tail(completed)
    /\ UNCHANGED <<req, ingest_vars, retry_vars, finish_order, mode, state, route_pc, attempt, raw, selected, task, consolidations,
                   consolidation_input, response, error>>

\* ---------------------------------------------------------------- fan-in
\* run: the loop is over, self._consolidate is called
RunConsolidate ==
    /\ mode = "run"
    /\ state = "EXECUTING"
    /\ AllDone
    /\ state' = "CONSOLIDATING"
    /\ consolidations' = consolidations + 1
    /\ consolidation_input' = agent_outputs
    /\ UNCHANGED <<req, ingest_vars, retry_vars, finish_order, mode, route_pc, attempt, raw, selected, task, completed, agent_outputs,
                   events, response, error>>

\* the mapping is filled as the tasks end, as the stream does
ArunGather_as_completed ==
    /\ mode = "arun"
    /\ state = "EXECUTING"
    /\ AllDone
    /\ agent_outputs' = DictOf([n \in 1..Len(finish_order) |->
                                  <<selected[finish_order[n]], task[finish_order[n]].out>>])
    /\ state' = "CONSOLIDATING"
    /\ consolidations' = consolidations + 1
    /\ consolidation_input' = agent_outputs'
    /\ UNCHANGED <<req, ingest_vars, retry_vars, finish_order, mode, route_pc, attempt, raw,
                   selected, task, completed, events, response, error>>

\* the results come back in completion order and are keyed by list position
ArunGather_completion_order ==
    /\ mode = "arun"
    /\ state = "EXECUTING"
    /\ AllDone
    /\ agent_outputs' = DictOf([i \in Slots |-> <<selected[i], task[finish_order[i]].out>>])
    /\ state' = "CONSOLIDATING"
    /\ consolidations' = consolidations + 1
    /\ consolidation_input' = agent_outputs'
    /\ UNCHANGED <<req, ingest_vars, retry_vars, finish_order, mode, route_pc, attempt, raw, selected, task,
                   completed, events, response, error>>

\* arun: asyncio.gather returns the results in list order, dict(results),
\* self._aconsolidate is called
ArunGather ==
    /\ mode = "arun"
    /\ state = "EXECUTING"
    /\ AllDone
    /\ agent_outputs' = DictOf([i \in Slots |-> <<selected[i], task[i].out>>])
    /\ state' = "CONSOLIDATING"
    /\ consolidations' = consolidations + 1
    /\ consolidation_input' = agent_outputs'
    /\ UNCHANGED <<req, ingest_vars, retry_vars, finish_order, mode, route_pc, attempt, raw, selected, task, completed, events,
                   response, error>>

\* with no task at all the generator ends the stream without consolidating
StreamConsolidate_skips_empty ==
    /\ mode = "stream"
    /\ state = "EXECUTING"
    /\ AllDone
    /\ completed = <<>>
    /\ IF Len(task) = 0
       THEN /\ state' = "DONE"
            /\ events' = Emit(<<_sse("done", <<>>)>>)
            /\ UNCHANGED <<consolidations, consolidation_input>>
       ELSE /\ state' = "CONSOLIDATING"
            /\ consolidations' = consolidations + 1
            /\ consolidation_input' = agent_outputs
            /\ UNCHANGED events
    /\ UNCHANGED <<req, ingest_vars, retry_vars, finish_order, mode, route_pc, attempt, raw,
                   selected, task, completed, agent_outputs, response, error>>

\* _event_generator: as_completed is exhausted, supervisor._aconsolidate is called
StreamConsolidate ==
    /\ mode = "stream"
    /\ state = "EXECUTING"
    /\ AllDone
    /\ completed = <<>>
    /\ state' = "CONSOLIDATING"
    /\ consolidations' = consolidations + 1
    /\ consolidation_input' = agent_outputs
    /\ UNCHANGED <<req, ingest_vars, retry_vars, finish_order, mode, route_pc, attempt, raw, selected, task, completed, agent_outputs,
                   events, response, error>>

\* ------------------------------------------------------------ consolidator
\* the consolidation call returns; run / arun return the result, the
\* generator yields response and done
ConsolidateReturn ==
    /\ state = "CONSOLIDATING"
    /\ response' = FinalText
    /\ state' = "DONE"
    /\ events' = Emit(<<_sse("response", <<selected, FinalText>>), _sse("done", <<>>)>>)
    /\ UNCHANGED <<req, ingest_vars, retry_vars, finish_order, mode, route_pc, attempt, raw, selected, task, completed, agent_outputs,
                   consolidations, consolidation_input, error>>

\* the consolidation call wrapped in a retry: a transient failure calls again
ConsolidateRaise_retried(exc) ==
    /\ state = "CONSOLIDATING"
    /\ IF _is_retryable(exc) /\ consolidations <= RouteMaxRetries
       THEN /\ consolidations' = consolidations + 1
            /\ UNCHANGED <<state, error, events>>
       ELSE /\ error' = exc
            /\ state' = "FAILED"
            /\ events' = Emit(<<_sse("error", exc)>>)
            /\ UNCHANGED consolidations
    /\ UNCHANGED <<req, ingest_vars, retry_vars, finish_order, mode, route_pc, attempt, raw, selected, task, completed,
                   agent_outputs, consolidation_input, response>>

\* the generator closes the stream with done after the error event as well
ConsolidateRaise_then_done(exc) ==
    /\ state = "CONSOLIDATING"
    /\ error' = exc
    /\ state' = "FAILED"
    /\ events' = Emit(<<_sse("error", exc), _sse("done", <<>>)>>)
    /\ UNCHANGED <<req, ingest_vars, retry_vars, finish_order, mode, route_pc, attempt, raw, selected, task, completed,
                   agent_outputs, consolidations, consolidation_input, response>>

\* the consolidation call raises: run / arun propagate, the generator's
\* except clause yields the error event
ConsolidateRaise(exc) ==
    /\ state = "CONSOLIDATING"
    /\ error' = exc
    /\ state' = "FAILED"
    /\ events' = Emit(<<_sse("error", exc)>>)
    /\ UNCHANGED <<req, ingest_vars, retry_vars, finish_order, mode, route_pc, attempt, raw, selected, task, completed, agent_outputs,
                   consolidations, consolidation_input, response>>

\* ---------------------------------------------------------- specification
Next ==
    \/ Receive
    \/ RouteReply
    \/ RouteParse
    \/ RouteReturn
    \/ \E exc \in Exceptions : RouteRaise(exc)
    \/ \E i \in Slots, exc \in Exceptions : SpecialistRetry(i, exc)
    \/ \E i \in Slots : RunAgentReturn(i)
    \/ \E i \in Slots, exc \in Exceptions : RunAgentRaise(i, exc)
    \/ \E i \in Slots : _invoke_agent_return(i)
    \/ \E i \in Slots, exc \in Exceptions : _invoke_agent_raise(i, exc)
    \/ \E i \in Slots : _invoke_return(i)
    \/ \E i \in Slots, exc \in Exceptions : _invoke_raise(i, exc)
    \/ StreamAgentEvent
    \/ RunConsolidate
    \/ ArunGather
    \/ StreamConsolidate
    \/ ConsolidateReturn
    \/ \E exc \in Exceptions : ConsolidateRaise(exc)

Spec == Init /\ [][Next]_vars

\* every generation or retrieval call eventually returns or raises, and the
\* event loop runs every ready task
FairSpec == Spec /\ WF_vars(Next)

\* --------------------------------------------- the retry wrappers on their own
orchestration_vars ==
    <<mode, state, route_pc, attempt, raw, selected, task, completed, agent_outputs,
      events, consolidations, consolidation_input, response, error, finish_order>>

InitRetry ==
    /\ mode = "run"
    /\ state = "RECEIVED"
    /\ route_pc = "idle"
    /\ attempt = 0
    /\ raw = NoRaw
    /\ selected = <<>>
    /\ task = <<>>
    /\ completed = <<>>
    /\ agent_outputs = <<>>
    /\ events = <<>>
    /\ consolidations = 0
    /\ consolidation_input = <<>>
    /\ response = NoResponse
    /\ error = NoError
    /\ finish_order = <<>>
    /\ cfg \in Cfgs
    /\ script \in Scripts(cfg.max_retries)
    /\ wr = [k \in Kinds |-> CallFrame]
    /\ store = <<>>
    /\ ingests = 0
    /\ retrieved = NoRetrieval
    /\ req = <<>>

\* retry_with_backoff: wrapper, one turn of its loop
retry_with_backoff ==
    /\ wr["sync"].pc = "call"
    /\ \E outcome \in FnOutcomes(wr["sync"].calls + 1), draw \in Draws :
          wr' = [wr EXCEPT !["sync"] = SyncIteration(@, outcome, draw)]
    /\ UNCHANGED <<cfg, script, orchestration_vars, ingest_vars, req>>

\* async_retry_with_backoff: wrapper, one turn of its loop
async_retry_with_backoff ==
    /\ wr["async"].pc = "call"
    /\ \E outcome \in FnOutcomes(wr["async"].calls + 1), draw \in Draws :
          wr' = [wr EXCEPT !["async"] = AsyncIteration(@, outcome, draw)]
    /\ UNCHANGED <<cfg, script, orchestration_vars, ingest_vars, req>>

NextRetry ==
    \/ retry_with_backoff
    \/ async_retry_with_backoff

SpecRetry == InitRetry /\ [][NextRetry]_vars

\* ------------------------------------ two /query requests on one supervisor
\* query_endpoint awaits supervisor.arun(req.query, req.menu_name) for each
\* request on the module-level supervisor; the event loop interleaves them at
\* their awaits
Requests == {1, 2}

QueryOf(r) == <<"query", r>>

PairRoutes == SeqsUpTo(AgentNames, MaxPairSelected)

NoPairOut == [by |-> "", query |-> <<>>, failed |-> FALSE]
\* result of self.agents[name].arun(query, menu_name)
PairText(name, query) == [by |-> name, query |-> query, failed |-> FALSE]
\* f"[Erro no agente {name}: {exc}]", built in the closure of that request
PairError(name, query) == [by |-> name, query |-> query, failed |-> TRUE]

NoResult == [query |-> <<>>, agents_used |-> <<>>, agent_outputs |-> <<>>,
             response |-> NoResponse]

\* the locals of one arun call
ArunFrame(r) == [pc |-> "routing", query |-> QueryOf(r), selected |-> <<>>,
                 out |-> <<>>, agent_outputs |-> <<>>, result |-> NoResult]

\* the call raised: its locals are gone, the caller has no result
FailedFrame(r) == [ArunFrame(r) EXCEPT !.pc = "failed"]

InitPair ==
    /\ mode = "arun"
    /\ state = "RECEIVED"
    /\ route_pc = "idle"
    /\ attempt = 0
    /\ raw = NoRaw
    /\ selected = <<>>
    /\ task = <<>>
    /\ completed = <<>>
    /\ agent_outputs = <<>>
    /\ events = <<>>
    /\ consolidations = 0
    /\ consolidation_input = <<>>
    /\ response = NoResponse
    /\ error = NoError
    /\ finish_order = <<>>
    /\ cfg = NoCfg
    /\ script = <<>>
    /\ wr = [k \in Kinds |-> IdleFrame]
    /\ store = <<>>
    /\ ingests = 0
    /\ retrieved = NoRetrieval
    /\ req = [r \in Requests |-> ArunFrame(r)]

PairUnchanged == UNCHANGED <<orchestration_vars, retry_vars, ingest_vars>>

\* selected = await self._aroute(query)
arun_aroute(r) ==
    /\ req[r].pc = "routing"
    /\ \E agents \in PairRoutes :
          req' = [req EXCEPT ![r].pc = "executing", ![r].selected = agents,
                             ![r].out = [i \in 1..Len(agents) |-> NoPairOut]]
    /\ PairUnchanged

\* self._aroute raises: arun propagates to query_endpoint
arun_aroute_raise(r) ==
    /\ req[r].pc = "routing"
    /\ req' = [req EXCEPT ![r] = FailedFrame(r)]
    /\ PairUnchanged

\* a specialist of one request answers with the query of whichever request
\* the shared instance saw, as if the query were kept on self
arun_invoke_agent_return_query_on_self(r, i) ==
    /\ req[r].pc = "executing"
    /\ i \in 1..Len(req[r].out)
    /\ req[r].out[i] = NoPairOut
    /\ \E other \in Requests :
          req' = [req EXCEPT ![r].out[i] = PairText(req[r].selected[i], req[other].query)]
    /\ PairUnchanged

\* _invoke_agent: result = await self.agents[name].arun(query, menu_name)
arun_invoke_agent_return(r, i) ==
    /\ req[r].pc = "executing"
    /\ i \in 1..Len(req[r].out)
    /\ req[r].out[i] = NoPairOut
    /\ req' = [req EXCEPT ![r].out[i] = PairText(req[r].selected[i], req[r].query)]
    /\ PairUnchanged

\* _invoke_agent: except Exception as exc
arun_invoke_agent_except(r, i) ==
    /\ req[r].pc = "executing"
    /\ i \in 1..Len(req[r].out)
    /\ req[r].out[i] = NoPairOut
    /\ req' = [req EXCEPT ![r].out[i] = PairError(req[r].selected[i], req[r].query)]
    /\ PairUnchanged

\* results = await asyncio.gather(...); agent_outputs = dict(results)
arun_gather(r) ==
    /\ req[r].pc = "executing"
    /\ \A i \in 1..Len(req[r].out) : req[r].out[i] # NoPairOut
    /\ req' = [req EXCEPT
                 ![r].pc = "consolidating",
                 ![r].agent_outputs =
                     DictOf([i \in 1..Len(req[r].out) |-> <<req[r].selected[i], req[r].out[i]>>])]
    /\ PairUnchanged

\* final = await self._aconsolidate(query, agent_outputs); return {...}
arun_return(r) ==
    /\ req[r].pc = "consolidating"
    /\ req' = [req EXCEPT
                 ![r].pc = "done",
                 ![r].result = [query |-> req[r].query,
                                agents_used |-> req[r].selected,
                                agent_outputs |-> req[r].agent_outputs,
                                response |-> <<req[r].query, req[r].agent_outputs>>]]
    /\ PairUnchanged

\* self._aconsolidate raises: arun propagates to query_endpoint
arun_aconsolidate_raise(r) ==
    /\ req[r].pc = "consolidating"
    /\ req' = [req EXCEPT ![r] = FailedFrame(r)]
    /\ PairUnchanged

NextPair ==
    \/ \E r \in Requests : arun_aroute(r)
    \/ \E r \in Requests : arun_aroute_raise(r)
    \/ \E r \in Requests, i \in 1..MaxPairSelected : arun_invoke_agent_return(r, i)
    \/ \E r \in Requests, i \in 1..MaxPairSelected : arun_invoke_agent_except(r, i)
    \/ \E r \in Requests : arun_gather(r)
    \/ \E r \in Requests : arun_return(r)
    \/ \E r \in Requests : arun_aconsolidate_raise(r)

SpecPair == InitPair /\ [][NextPair]_vars

\* -------------------------------------------------- ingestion and retrieval
\* the chunks splitter.split_documents yields for the files ingested; the
\* last file holds the same text twice
Files == {<<"Feijoada">>, <<"Feijoada", "Moqueca">>, <<"Moqueca", "Moqueca">>}

\* _assign_menu_id on the loaded documents, inherited by their chunks
Chunk(text, menu_name) ==
    [page_content |-> text, menu_id |-> menu_id_of(menu_name), menu_name |-> menu_name,
     content_hash |-> ""]

RECURSIVE unique_chunks(_, _)
\* the loop over chunks: a chunk whose hash is in seen is skipped, the others
\* get their content_hash
unique_chunks(chunks, seen) ==
    IF chunks = <<>> THEN <<>>
    ELSE LET h == content_hash_of(Head(chunks).page_content)
         IN  IF h \in seen
             THEN unique_chunks(Tail(chunks), seen)
             ELSE <<[Head(chunks) EXCEPT !.content_hash = h]>>
                      \o unique_chunks(Tail(chunks), seen \cup {h})

\* vs.add_documents(docs): no ids are given, so every document is a new entry
add_documents(collection, docs) == collection \o docs

\* search_kwargs["filter"] of get_retriever(menu_name)
FilterOf(menu_name) ==
    IF menu_name # NoMenu /\ menu_name # ""
    THEN menu_id_of(menu_name)
    ELSE NoFilter

\* the chunks a search with that filter can return
Matching(collection, filter) ==
    {collection[i] : i \in {j \in 1..Len(collection) :
                               filter = NoFilter \/ collection[j].menu_id = filter}}

InitIngest ==
    /\ mode = "run"
    /\ state = "RECEIVED"
    /\ route_pc = "idle"
    /\ attempt = 0
    /\ raw = NoRaw
    /\ selected = <<>>
    /\ task = <<>>
    /\ completed = <<>>
    /\ agent_outputs = <<>>
    /\ events = <<>>
    /\ consolidations = 0
    /\ consolidation_input = <<>>
    /\ response = NoResponse
    /\ error = NoError
    /\ finish_order = <<>>
    /\ cfg = NoCfg
    /\ script = <<>>
    /\ wr = [k \in Kinds |-> IdleFrame]
    /\ store = <<>>
    /\ ingests = 0
    /\ retrieved = NoRetrieval
    /\ req = <<>>

\* ingest_file(file_path, menu_name)
ingest_file ==
    /\ ingests < MaxIngests
    /\ ingests' = ingests + 1
    /\ \E file \in Files, menu_name \in MenuNames :
          LET chunks == [i \in 1..Len(file) |-> Chunk(file[i], menu_name)]
          IN  store' = add_documents(store, unique_chunks(chunks, {}))
    /\ UNCHANGED <<orchestration_vars, retry_vars, retrieved, req>>

\* get_retriever(menu_name), then a search through the retriever
get_retriever ==
    /\ \E menu_name \in MenuNames \cup {NoMenu} :
          retrieved' = [scope |-> menu_name,
                        filter |-> FilterOf(menu_name),
                        docs |-> Matching(store, FilterOf(menu_name)),
                        built |-> TRUE]
    /\ UNCHANGED <<orchestration_vars, retry_vars, store, ingests, req>>

NextIngest ==
    \/ ingest_file
    \/ get_retriever

SpecIngest == InitIngest /\ [][NextIngest]_vars

\* ================================================================= claims
ErrMarker == "Erro no agente"

\* the stripped reply is one JSON document and that document is an array
ParsesAsArray(text) ==
    /\ Len(text) = 1
    /\ text[1].t = "doc"
    /\ text[1].doc.kind = "array"

RECURSIVE TableKeys(_)
\* the elements of a JSON array that are capability identifiers, in order
TableKeys(items) ==
    IF items = <<>> THEN <<>>
    ELSE (IF items[1].t = "str" /\ items[1].v \in AgentNames
          THEN <<items[1].v>> ELSE <<>>) \o TableKeys(Tail(items))

HasNested(items) == \E i \in 1..Len(items) : items[i].t \in {"list", "dict"}

NoDuplicates(seq) ==
    \A i, j \in 1..Len(seq) : i # j => seq[i] # seq[j]

Raised(i) == task[i].status = "done" /\ task[i].out.marker = ErrMarker

Started(i) == task[i].status = "done" \/ task[i].attempt > 0

\* C1: once the fan-out is over, agent_outputs has exactly as many entries as
\* the selected capability list, whichever specialists failed.
C1_OneEntryPerSelected ==
    consolidations > 0 => Len(agent_outputs) = Len(selected)

\* C2 (as stated): whenever the classifier's reply parses as a JSON array, the
\* router returns exactly its elements that are keys of the capability table,
\* in their order, and nothing outside the table is ever selected.
C2_ArrayAlwaysFiltered ==
    /\ \A i \in 1..Len(selected) : selected[i] \in AgentNames
    /\ (route_pc = "return" /\ ParsesAsArray(raw))
          => selected = TableKeys(raw[1].doc.items)

\* C2 (amended): whenever the classifier's reply parses as a JSON array with no
\* nested array or object among its elements, the router returns exactly its
\* elements that are keys of the capability table, in their order; with a
\* nested array or object among them it returns the default ["recommendation"];
\* in every case nothing outside the table is selected or given a task.
C2_FlatArrayFiltered ==
    /\ \A i \in 1..Len(selected) : selected[i] \in AgentNames
    /\ Len(task) > 0 => Len(task) = Len(selected)
    /\ (route_pc = "return" /\ ParsesAsArray(raw))
          => selected = IF HasNested(raw[1].doc.items)
                        THEN <<"recommendation">>
                        ELSE TableKeys(raw[1].doc.items)

\* C2 witness: the reply ["bogus", "quality"] has been parsed to ["quality"].
C2_Witness ==
    /\ route_pc = "return"
    /\ ParsesAsArray(raw)
    /\ raw[1].doc.items = <<Str("bogus"), Str("quality")>>
    /\ selected = <<"quality">>

\* C3: whenever the stripped reply does not parse as a JSON array (malformed
\* text, or a JSON string, object, number or null), the router returns
\* exactly ["recommendation"].
C3_NonArrayFallsBack ==
    (route_pc = "return" /\ ~ParsesAsArray(raw)) => selected = <<"recommendation">>

\* C4: the capability list the router returns holds no identifier twice.
C4_Deduplicated ==
    route_pc = "return" => NoDuplicates(selected)

\* C5: in run the specialists are invoked one after the other in list order,
\* a failing specialist does not stop the later ones, and the entry of a
\* capability whose specialist raised is the error string naming it and
\* carrying the failure description.
C5_RunAbsorbsFailures ==
    mode = "run" =>
        /\ \A j \in Slots : Started(j) => \A i \in 1..(j - 1) : task[i].status = "done"
        /\ consolidations > 0 => AllDone
        /\ state = "FAILED" => (consolidations = 1 \/ Len(task) = 0)
        /\ \A i \in Slots : Raised(i) =>
              /\ HasKey(agent_outputs, selected[i])
              /\ DictGet(agent_outputs, selected[i])
                    = [by |-> selected[i], marker |-> ErrMarker,
                       name |-> selected[i], exc |-> task[i].out.exc]

Last(seq) == seq[Len(seq)]

Terminal(e) == e[1] \in {"done", "error"}

Count(S) == Cardinality(S)

\* C6: no step leaves EXECUTING for anything but CONSOLIDATING, and FAILED is
\* entered only from ROUTING or CONSOLIDATING, in run, arun and the stream.
C6_ExecutingNeverFails ==
    [][ /\ state = "EXECUTING" => state' \in {"EXECUTING", "CONSOLIDATING"}
        /\ (state' = "FAILED" /\ state # "FAILED")
              => state \in {"ROUTING", "CONSOLIDATING"} ]_vars

\* C6 witness: arun reached CONSOLIDATING although both specialists raised.
C6_Witness ==
    /\ mode = "arun"
    /\ state = "CONSOLIDATING"
    /\ Len(task) = 2
    /\ \A i \in Slots : Raised(i)

\* C7: the consolidation call is made at most once per request; when it
\* raises, also with a transient failure, no second call is made, no response
\* text exists and the request is FAILED with that failure (the stream ends
\* with its error event).
C7_SingleConsolidation ==
    /\ consolidations <= 1
    /\ state = "CONSOLIDATING" => consolidations = 1
    /\ (consolidations = 1 /\ error # NoError) =>
          /\ state = "FAILED"
          /\ response = NoResponse
          /\ mode = "stream" => Last(events) = <<"error", error>>

\* C7 witness: the single consolidation call raised a transient failure and
\* the request is FAILED.
C7_Witness ==
    /\ state = "FAILED"
    /\ consolidations = 1
    /\ error = RateLimitError
    /\ _is_retryable(error)

C9_OneTerminalEvent ==
    mode = "stream" =>
        /\ \A k \in 1..Len(events) : Terminal(events[k]) => k = Len(events)
        /\ state = "DONE" => (events # <<>> /\ Last(events)[1] = "done")
        /\ state = "FAILED" => (events # <<>> /\ Last(events)[1] = "error")
        /\ state \notin {"DONE", "FAILED"} =>
              \A k \in 1..Len(events) : ~Terminal(events[k])

\* C9 witness: a stream that emitted routing and agent events, then error.
C9_Witness ==
    /\ mode = "stream"
    /\ state = "FAILED"
    /\ Len(events) >= 3
    /\ Last(events)[1] = "error"

\* C10: the retry loops never go past attempt max_retries, and under fair
\* scheduling every request reaches DONE or FAILED (a stream its terminal
\* event).
C10_Terminates ==
    /\ [](/\ attempt <= RouteMaxRetries
          /\ \A i \in Slots : task[i].attempt <= AgentMaxRetries)
    /\ <>(/\ state \in {"DONE", "FAILED"}
          /\ mode = "stream" => (events # <<>> /\ Terminal(Last(events))))

\* C10 witness: the router's transient failure propagated, which the wrapper
\* does only on its last attempt.
C10_Witness ==
    /\ state = "FAILED"
    /\ consolidations = 0
    /\ _is_retryable(error)

\* ----------------------------------------------- claims on the retry wrappers
Ended(f) == f.pc \in {"returned", "raised"}

Transient(outcome) == ~outcome.ok /\ _is_retryable(outcome.msg)

\* the first k scripted calls all fail with a transient failure
TransientRun(k) == k <= Len(script) /\ \A i \in 1..k : Transient(script[i])

\* the exception object the n-th scripted call raises
Thrown(n) == [msg |-> script[n].msg, call |-> n]

\* C11: under the sync and the async wrapper, an operation that fails k times
\* in a row with a transient failure and then succeeds, k <= max_retries, is
\* called exactly k+1 times and the wrapper returns the success value.
C11_RetriesUntilSuccess ==
    \A kind \in Kinds : \A k \in 0..cfg.max_retries :
        (TransientRun(k) /\ script[k + 1].ok) =>
            /\ wr[kind].calls <= k + 1
            /\ wr[kind].calls = k + 1 => Ended(wr[kind])
            /\ Ended(wr[kind]) =>
                  /\ wr[kind].pc = "returned"
                  /\ wr[kind].value = OkValue
                  /\ wr[kind].calls = k + 1
                  /\ Len(wr[kind].sleeps) = k

\* C11 witness: max_retries=3, two rate-limit failures, then success: both
\* wrappers returned after three calls.
C11_Witness ==
    /\ cfg.max_retries = 3
    /\ script[1] = Raises(RateLimitError)
    /\ script[2] = Raises(RateLimitError)
    /\ script[3] = Returns
    /\ \A kind \in Kinds :
          /\ wr[kind].pc = "returned"
          /\ wr[kind].calls = 3
          /\ wr[kind].value = OkValue

\* C12: under both wrappers and every max_retries >= 0, an operation whose
\* first failure is non-transient is called exactly once, no sleep happens and
\* the exception of that call is the one that propagates.
C12_NonTransientNotRetried ==
    \A kind \in Kinds :
        (Len(script) >= 1 /\ ~script[1].ok /\ ~_is_retryable(script[1].msg)) =>
            /\ wr[kind].calls <= 1
            /\ wr[kind].sleeps = <<>>
            /\ wr[kind].calls = 1 =>
                  /\ wr[kind].pc = "raised"
                  /\ wr[kind].exc = Thrown(1)

\* C12 witness: max_retries=3 and a first call raising "bad input": both
\* wrappers raised it after one call without sleeping.
C12_Witness ==
    /\ cfg.max_retries = 3
    /\ script[1] = Raises(BadInputError)
    /\ \A kind \in Kinds :
          /\ wr[kind].pc = "raised"
          /\ wr[kind].calls = 1
          /\ wr[kind].sleeps = <<>>
          /\ wr[kind].exc.msg = BadInputError

\* C13: under both wrappers, an operation that always fails with a transient
\* failure is called exactly max_retries+1 times, and what propagates is the
\* exception raised by the last call, not an earlier nor a synthetic one.
C13_ExhaustedRaisesLast ==
    \A kind \in Kinds :
        TransientRun(cfg.max_retries + 1) =>
            /\ wr[kind].pc # "returned"
            /\ wr[kind].calls <= cfg.max_retries + 1
            /\ wr[kind].calls = cfg.max_retries + 1 => wr[kind].pc = "raised"
            /\ wr[kind].pc = "raised" =>
                  /\ wr[kind].calls = cfg.max_retries + 1
                  /\ Len(wr[kind].sleeps) = cfg.max_retries
                  /\ wr[kind].exc = Thrown(cfg.max_retries + 1)

\* C13 witness: max_retries=2 and three rate-limit failures: both wrappers
\* raised the third call's exception.
C13_Witness ==
    /\ cfg.max_retries = 2
    /\ TransientRun(3)
    /\ \A kind \in Kinds :
          /\ wr[kind].pc = "raised"
          /\ wr[kind].calls = 3
          /\ wr[kind].exc = [msg |-> RateLimitError, call |-> 3]

RECURSIVE Doubled(_, _)
\* d doubled i times
Doubled(d, i) == IF i = 0 THEN d ELSE Doubled(d + d, i - 1)

\* C14: with jitter disabled, the delay slept after the failed attempt i
\* (i = 0, 1, ...) is min(base_delay * 2^i, max_delay), so the delays of one
\* call never decrease.
C14_ExponentialBackoff ==
    ~cfg.jitter =>
        \A kind \in Kinds :
            LET sleeps == wr[kind].sleeps
            IN  /\ \A n \in 1..Len(sleeps) :
                      sleeps[n] = Min(Doubled(cfg.base_delay, n - 1), cfg.max_delay)
                /\ \A n \in 2..Len(sleeps) : sleeps[n - 1] <= sleeps[n]

\* C14 witness: base_delay=1s, max_delay=30s, no jitter: the sync wrapper slept
\* 1s, 2s and 4s after three failures.
C14_Witness ==
    /\ ~cfg.jitter
    /\ wr["sync"].sleeps = <<Seconds(1), Seconds(2), Seconds(4)>>

\* C15: the delay slept between two calls never exceeds max_delay, for every
\* configuration, jitter included.
C15_DelayCapped ==
    \A kind \in Kinds :
        \A n \in 1..Len(wr[kind].sleeps) : wr[kind].sleeps[n] <= cfg.max_delay

\* ------------------------------------------- claims on budgets and the fan-out
\* C16 (as stated): the router's generation call is attempted at most 2 times
\* per request.
C16_RouterAtMostTwoCalls ==
    route_pc = "llm" => attempt + 1 <= 2

\* C16 (amended): the router's generation call is attempted at most 3 times
\* per request, one call and max_retries=2 retries; when every attempt fails
\* with a transient failure the request fails on the third.
C16_RouterAtMostThreeCalls ==
    /\ [](route_pc = "llm" => attempt + 1 <= RouteMaxRetries + 1)
    /\ [][(state = "ROUTING" /\ state' = "FAILED" /\ _is_retryable(error'))
              => attempt + 1 = RouteMaxRetries + 1]_vars

\* C16 witness: the router's call failed twice and is being made a third time.
C16_Witness ==
    /\ state = "ROUTING"
    /\ route_pc = "llm"
    /\ attempt + 1 = 3

\* C17 (as stated): within one fan-out slot the specialist's
\* retrieve-and-generate operation is attempted at most 3 times.
C17_SpecialistAtMostThreeCalls ==
    \A i \in Slots : task[i].status = "pending" => task[i].attempt + 1 <= 3

\* C17 (amended): within one fan-out slot the specialist's operation is
\* attempted at most 4 times, one call and max_retries=3 retries; a slot that
\* ends with a transient failure ends on its fourth attempt.
C17_SpecialistAtMostFourCalls ==
    /\ [](\A i \in Slots : task[i].attempt + 1 <= AgentMaxRetries + 1)
    /\ [][\A i \in Slots :
             (i \in DOMAIN task' /\ task[i].status = "pending"
                 /\ task'[i].status = "done" /\ _is_retryable(task'[i].out.exc))
                 => task[i].attempt + 1 = AgentMaxRetries + 1]_vars

\* C17 witness: a specialist failed three times and is on its fourth attempt.
C17_Witness ==
    \E i \in Slots :
        /\ state = "EXECUTING"
        /\ task[i].status = "pending"
        /\ task[i].attempt + 1 = 4

Concurrent == mode \in {"arun", "stream"}

Distinct(seq) == NoDuplicates(seq)

\* C18: in arun and in the stream, whatever the completion order, every entry
\* of agent_outputs is keyed by the capability whose specialist produced it,
\* and once the fan-out is over every selected capability has its entry.
C18_KeyedByCapability ==
    Concurrent =>
        /\ \A j \in 1..Len(agent_outputs) :
              /\ agent_outputs[j].v.by = agent_outputs[j].k
              /\ \E i \in Slots :
                    /\ selected[i] = agent_outputs[j].k
                    /\ task[i].status = "done"
                    /\ task[i].out = agent_outputs[j].v
        /\ consolidations > 0 =>
              \A i \in Slots : HasKey(agent_outputs, selected[i])

\* C18 witness: arun over two capabilities whose second specialist ended
\* first and whose first specialist raised; the fan-in has built agent_outputs.
C18_Witness ==
    /\ mode = "arun"
    /\ state = "CONSOLIDATING"
    /\ Len(selected) = 2
    /\ Distinct(selected)
    /\ finish_order = <<2, 1>>
    /\ Raised(1)
    /\ ~Raised(2)
    /\ Len(agent_outputs) = 2

AgentEvents == SelectSeq(events, LAMBDA e : e[1] = "agent")

\* C19: in the stream the agent events follow the order in which the
\* specialist tasks ended, not the capability list: the n-th agent event
\* carries the name and the output of the n-th task to end.
C19_CompletionOrder ==
    mode = "stream" =>
        /\ Len(AgentEvents) <= Len(finish_order)
        /\ \A n \in 1..Len(AgentEvents) :
              AgentEvents[n][2] = <<selected[finish_order[n]], task[finish_order[n]].out>>

\* C19 witness: the second capability's specialist ended first and its agent
\* event was emitted first.
C19_Witness ==
    /\ mode = "stream"
    /\ Len(selected) = 2
    /\ Distinct(selected)
    /\ finish_order = <<2, 1>>
    /\ Len(AgentEvents) = 2
    /\ AgentEvents[1][2][1] = selected[2]
    /\ AgentEvents[2][2][1] = selected[1]

\* C20: in arun and in the stream the consolidation call starts only when
\* every selected specialist task has ended, by returning or by raising; a
\* started task is never dropped, an ended task keeps its output, and a step
\* that ends one task leaves its siblings as they were.
C20_FanInBarrier ==
    /\ [](Concurrent =>
            /\ consolidations > 0 =>
                  /\ \A i \in Slots : task[i].status = "done"
                  /\ Len(task) = Len(selected)
            /\ state = "EXECUTING" => Len(task) = Len(selected))
    /\ [][Concurrent =>
            /\ Len(task) > 0 => Len(task') = Len(task)
            /\ \A i \in Slots :
                  /\ task[i].status = "done" => task'[i] = task[i]
                  /\ (task'[i] # task[i] /\ task'[i].status = "done")
                        => \A j \in Slots \ {i} : task'[j] = task[j]]_vars

\* C20 witness: the stream started consolidating after one of two specialists
\* raised and the other, ending later, returned.
C20_Witness ==
    /\ mode = "stream"
    /\ state = "CONSOLIDATING"
    /\ Len(task) = 2
    /\ Raised(finish_order[1])
    /\ ~Raised(finish_order[2])

\* ------------------------------------------------ claims on concurrent requests
\* C21: two requests served concurrently by the one supervisor do not
\* interfere: in every interleaving, each request's capability list and
\* specialist outputs are its own, and its result carries its own query, its
\* own capability list and only outputs computed for its query, each keyed by
\* the capability that produced it.
C21_RequestsIsolated ==
    \A r \in Requests :
        /\ req[r].query = QueryOf(r)
        /\ \A i \in 1..Len(req[r].out) :
              req[r].out[i] # NoPairOut =>
                  /\ req[r].out[i].by = req[r].selected[i]
                  /\ req[r].out[i].query = QueryOf(r)
        /\ \A j \in 1..Len(req[r].agent_outputs) :
              /\ req[r].agent_outputs[j].v.by = req[r].agent_outputs[j].k
              /\ req[r].agent_outputs[j].v.query = QueryOf(r)
        /\ req[r].pc = "done" =>
              /\ req[r].result.query = QueryOf(r)
              /\ req[r].result.agents_used = req[r].selected
              /\ req[r].result.agent_outputs = req[r].agent_outputs
              /\ req[r].result.response[1] = QueryOf(r)
              /\ \A i \in 1..Len(req[r].selected) :
                    HasKey(req[r].result.agent_outputs, req[r].selected[i])

\* C21 witness: both requests selected nutrition and quality and were in
\* their fan-out together; the first has returned its result while the second
\* has one specialist answered and one still running.
C21_Witness ==
    /\ req[1].pc = "done"
    /\ req[1].selected = <<"nutrition", "quality">>
    /\ req[1].result.agent_outputs[1].v.query = QueryOf(1)
    /\ req[2].pc = "executing"
    /\ req[2].selected = <<"quality", "nutrition">>
    /\ req[2].out[1] = PairText("quality", QueryOf(2))
    /\ req[2].out[2] = NoPairOut

\* --------------------------------------- further claims on the retry wrappers
\* C22: with jitter off, for every configuration and every sequence of
\* outcomes of the operation, the sync and the async wrapper make the same
\* calls, sleep the same delays and end alike: after the same number of calls
\* their frames are equal, and so are the returned value or propagated
\* exception once both have ended.
C22_SyncAsyncAlike ==
    ~cfg.jitter =>
        /\ wr["sync"].calls = wr["async"].calls => wr["sync"] = wr["async"]
        /\ (Ended(wr["sync"]) /\ Ended(wr["async"])) =>
              /\ wr["sync"].calls = wr["async"].calls
              /\ wr["sync"].sleeps = wr["async"].sleeps
              /\ wr["sync"].pc = wr["async"].pc
              /\ wr["sync"].value = wr["async"].value
              /\ wr["sync"].exc = wr["async"].exc

\* C22 witness: max_delay=2s, base_delay=1s, no jitter, three rate-limit
\* failures then a bad-input failure: both wrappers slept 1s, 2s, 2s and raised
\* the fourth call's exception.
C22_Witness ==
    /\ ~cfg.jitter
    /\ \A kind \in Kinds :
          /\ wr[kind].pc = "raised"
          /\ wr[kind].calls = 4
          /\ wr[kind].sleeps = <<Seconds(1), Seconds(2), Seconds(2)>>
          /\ wr[kind].exc = [msg |-> BadInputError, call |-> 4]

\* ------------------------------------------------------- claims on ingestion
\* C23: after any sequence of ingest_file calls, the same file and menu name
\* twice included, the collection holds no two chunks with the same content
\* hash.
C23_NoDuplicateHashes ==
    \A i, j \in 1..Len(store) :
        i # j => store[i].content_hash # store[j].content_hash

\* C24: for every menu name N, the empty string included, the chunks ingested
\* under N all carry the menu_id of N, and a retriever built for N filters on
\* exactly that menu_id, so that it lets through only chunks ingested under N.
C24_ScopeRoundTrips ==
    /\ \A i \in 1..Len(store) : store[i].menu_id = menu_id_of(store[i].menu_name)
    /\ (retrieved.built /\ retrieved.scope \in MenuNames) =>
          /\ retrieved.filter = menu_id_of(retrieved.scope)
          /\ \A d \in retrieved.docs : d.menu_name = retrieved.scope

\* ------------------------------------------ further claims on the orchestration
\* C25: when the router's generation call raises a non-transient failure, or a
\* transient one on its last attempt, the request goes from ROUTING to FAILED
\* with that failure and no downstream work: no specialist is invoked, the
\* consolidator is not called, and the stream consists of the error event
\* alone, with no routing event before it.
C25_RouterFailureIsFinal ==
    /\ []((state = "FAILED" /\ consolidations = 0) =>
            /\ error # NoError
            /\ task = <<>>
            /\ finish_order = <<>>
            /\ agent_outputs = <<>>
            /\ response = NoResponse
            /\ events = IF mode = "stream" THEN <<_sse("error", error)>> ELSE <<>>)
    /\ [][(state = "ROUTING" /\ state' = "FAILED") =>
            /\ route_pc = "llm"
            /\ attempt = RouteMaxRetries \/ ~_is_retryable(error')
            /\ consolidations' = 0
            /\ task' = <<>>]_vars
    /\ [][state = "FAILED" => UNCHANGED <<state, task, consolidations, events, error>>]_vars

\* C25 witness: the streamed request failed in routing on a bad-input failure
\* and its only event is the error event.
C25_Witness ==
    /\ mode = "stream"
    /\ state = "FAILED"
    /\ consolidations = 0
    /\ error = BadInputError
    /\ events = <<_sse("error", BadInputError)>>

\* invocations of the specialist of capability c that have ended
Invocations(c) == {n \in 1..Len(finish_order) : selected[finish_order[n]] = c}

\* C26: within one request the fan-out invokes the specialist of each selected
\* capability exactly once, in run, arun and the stream, and no specialist
\* outside the capability list; in the stream the agent events and the result
\* mapping come from those same invocations.
C26_InvokedOnce ==
    \A c \in AgentNames :
        /\ Count(Invocations(c)) <= 1
        /\ (\A i \in 1..Len(selected) : selected[i] # c) => Invocations(c) = {}
        /\ (consolidations > 0 /\ \E i \in 1..Len(selected) : selected[i] = c)
              => Count(Invocations(c)) = 1
        /\ mode = "stream" =>
              Count({k \in 1..Len(events) : events[k][1] = "agent" /\ events[k][2][1] = c})
                  <= Count(Invocations(c))

\* the router has returned the empty capability list
RoutedEmpty ==
    /\ selected = <<>>
    /\ state \in {"EXECUTING", "CONSOLIDATING", "DONE"}
          \/ (state = "FAILED" /\ consolidations > 0)

\* C27: when the router returns the empty capability list (the reply [] or
\* an array of unknown identifiers only), no specialist is invoked, the
\* consolidator is called once, with an empty mapping, and the request ends
\* DONE when that call returns; the stream is then routing, response, done
\* with no agent event.
C27_EmptySelection ==
    /\ (route_pc = "return" /\ ParsesAsArray(raw) /\ ~HasNested(raw[1].doc.items)
           /\ TableKeys(raw[1].doc.items) = <<>>) => selected = <<>>
    /\ RoutedEmpty =>
          /\ task = <<>>
          /\ finish_order = <<>>
          /\ agent_outputs = <<>>
          /\ \A k \in 1..Len(events) : events[k][1] # "agent"
          /\ consolidations <= 1
          /\ state # "EXECUTING" => (consolidations = 1 /\ consolidation_input = <<>>)
          /\ state = "FAILED" => error # NoError
          /\ state = "DONE" =>
                /\ response = FinalText
                /\ mode = "stream" =>
                      events = <<_sse("routing", <<>>),
                                 _sse("response", <<<<>>, FinalText>>),
                                 _sse("done", <<>>)>>

\* C27 witness: the classifier replied ["bogus"]; the streamed request is
\* DONE after one consolidation call and three events.
C27_Witness ==
    /\ mode = "stream"
    /\ state = "DONE"
    /\ selected = <<>>
    /\ consolidations = 1
    /\ consolidation_input = <<>>
    /\ Len(events) = 3

\* the n-th scripted call is the first to fail with a non-transient failure,
\* and the calls before it all failed with a transient one
FatalAfterTransients(n) ==
    /\ n \in 1..Len(script)
    /\ TransientRun(n - 1)
    /\ ~script[n].ok
    /\ ~_is_retryable(script[n].msg)

\* C28: in both wrappers a sleep happens only between two attempts: a wrapper
\* about to call has slept once per call made, one that has ended made one
\* call more than it slept; so there is no sleep before the first call, none
\* after the last failing attempt and none with max_retries = 0; and a
\* non-transient failure that follows transient ones ends the loop at that
\* call and is what propagates.
C28_SleepsBetweenAttempts ==
    \A kind \in Kinds :
        LET f == wr[kind]
        IN  /\ f.pc = "call" => Len(f.sleeps) = f.calls
            /\ Ended(f) => (f.calls >= 1 /\ Len(f.sleeps) = f.calls - 1)
            /\ f.calls = 0 => f.sleeps = <<>>
            /\ cfg.max_retries = 0 => (f.sleeps = <<>> /\ f.calls <= 1)
            /\ \A n \in 1..Len(script) :
                  FatalAfterTransients(n) =>
                      /\ f.calls <= n
                      /\ f.calls = n =>
                            /\ f.pc = "raised"
                            /\ f.exc = Thrown(n)
                            /\ Len(f.sleeps) = n - 1

\* C28 witness: max_retries=3, two rate-limit failures then a bad-input one:
\* both wrappers slept twice, called three times and raised the third call's
\* exception.
C28_Witness ==
    /\ cfg.max_retries = 3
    /\ FatalAfterTransients(3)
    /\ \A kind \in Kinds :
          /\ wr[kind].pc = "raised"
          /\ wr[kind].calls = 3
          /\ Len(wr[kind].sleeps) = 2
          /\ wr[kind].exc = [msg |-> BadInputError, call |-> 3]

RECURSIVE FirstOccurrences(_)
\* the elements of seq in order, each at its first occurrence only
FirstOccurrences(seq) ==
    IF seq = <<>> THEN <<>>
    ELSE LET n == Len(seq)
             init == FirstOccurrences(SubSeq(seq, 1, n - 1))
         IN  IF \E j \in 1..Len(init) : init[j] = seq[n] THEN init ELSE Append(init, seq[n])

\* the last position of capability c in the selected list
LastPosition(c) ==
    CHOOSE i \in 1..Len(selected) :
        selected[i] = c /\ \A j \in (i + 1)..Len(selected) : selected[j] # c

\* the mapping in capability-list order: one entry per capability, placed at
\* its first occurrence and holding the output of its last invocation
ListOrderMapping ==
    LET keys == FirstOccurrences(selected)
    IN  [n \in 1..Len(keys) |-> [k |-> keys[n], v |-> task[LastPosition(keys[n])].out]]

SameItems(d, e) ==
    /\ Len(d) = Len(e)
    /\ \A n \in 1..Len(d) : d[n] = e[n]

\* C29: run and arun return the same agents_used and the same agent_outputs
\* for the same classifier output and the same specialist outcomes: in both,
\* the capability list is the router's and the mapping is the one in
\* capability-list order, keys, values and key order, whatever the order in
\* which the concurrent tasks ended; it is also what the consolidator joins.
C29_RunArunAlike ==
    (mode \in {"run", "arun"} /\ consolidations > 0) =>
        /\ Len(task) = Len(selected)
        /\ SameItems(agent_outputs, ListOrderMapping)
        /\ SameItems(consolidation_input, ListOrderMapping)

\* C29 witness: arun is DONE over two capabilities whose second specialist
\* ended first; the mapping lists the first capability first.
C29_Witness ==
    /\ mode = "arun"
    /\ state = "DONE"
    /\ Len(selected) = 2
    /\ Distinct(selected)
    /\ finish_order = <<2, 1>>
    /\ agent_outputs[1].k = selected[1]
    /\ agent_outputs[2].k = selected[2]

\* C30: in the stream the consolidator receives the per-capability results in
\* capability-list order, as in arun, whatever the order in which the
\* specialist tasks ended.
C30_StreamListOrder ==
    (mode = "stream" /\ consolidations > 0) =>
        SameItems(consolidation_input, ListOrderMapping)

====
